---- MODULE Spec2Model ----
(***************************************************************************)
(* Model of the Beekeeper Studio vite plugin.  The repository holds two    *)
(* sources of the plugin factory bks(): index.ts (the first version) and   *)
(* src/index.ts (the current one, with the manifest resolver, the          *)
(* middlewares and the provisioner).  The variable `variant` says which    *)
(* of the two factories built the plugin object.                           *)
(*                                                                         *)
(* Paths are sequences of segments, so that path.resolve and path.dirname  *)
(* are computed and not looked up.  An HTML document is a sequence of      *)
(* tokens; the two regular-expression replacements of injectDevClient are  *)
(* computed on the tokens.                                                 *)
(***************************************************************************)
EXTENDS Integers, Sequences, FiniteSets, TLC

\* ------------------------------------------------------------------ values

\* `let portFromServer: number | undefined`, `server.config.server.port`
Undefined == -1

\* the literal of `portFromServer || server.config.server.port || 5173`
DefaultPort == 5173

\* JavaScript truthiness of a number | undefined
Truthy(n) == n # Undefined /\ n # 0

\* a || b on numbers
Or(a, b) == IF Truthy(a) THEN a ELSE b

\* the values server.config.server.port takes in the model
ConfiguredPorts == {Undefined, 3000}

\* the ports httpServer.address() reports (3001: 3000 was taken)
BoundPorts == {3000, 3001}

\* what httpServer.address() returns: null, a pipe name, or an AddressInfo
Addresses == {[kind |-> "null", port |-> Undefined], [kind |-> "string", port |-> Undefined]}
             \cup {[kind |-> "object", port |-> p] : p \in BoundPorts}

\* -------------------------------------------------------------------- paths

Root == <<"proj">>

\* path.resolve(root, rel) for a relative path rel
Resolve(root, rel) == root \o rel

\* path.dirname
Dirname(p) == SubSeq(p, 1, Len(p) - 1)

\* the directory and every ancestor of it (mkdirSync {recursive: true})
Ancestors(d) == {SubSeq(d, 1, n) : n \in 1..Len(d)}

\* config.root/node_modules/@beekeeperstudio/plugin/dist/eventForwarder.js
EventForwarderSrc ==
    Resolve(Root, <<"node_modules", "@beekeeperstudio", "plugin", "dist", "eventForwarder.js">>)

\* __dirname/../error.html, __dirname being the plugin package's dist directory
ErrorPageSrc == <<"pkg", "error.html">>

\* options.entrypoints: the default of the factory, and the README's example
DefaultEntrypoints == <<[input |-> <<"index.html">>, output |-> <<"dist", "index.html">>]>>

ReadmeEntrypoints ==
    <<[input |-> <<"index.html">>, output |-> <<"dist", "index.html">>],
      [input |-> <<"config.html">>, output |-> <<"panel", "config.html">>]>>

\* two entrypoints made from one source: the panel page emitted under two names
SharedEntrypoints ==
    <<[input |-> <<"panel.html">>, output |-> <<"dist", "panel.html">>],
      [input |-> <<"panel.html">>, output |-> <<"dist", "settings.html">>]>>

\* an entrypoint transformed in place: its output path is its input path
InPlaceEntrypoints == <<[input |-> <<"index.html">>, output |-> <<"index.html">>]>>

EntrypointChoices ==
    {DefaultEntrypoints, ReadmeEntrypoints, SharedEntrypoints, InPlaceEntrypoints}

\* ---------------------------------------------------------------- documents

\* an attribute value: origin is its scheme://host ("" when it has none), port its
\* :port, lead says that its first character is "/", path is what follows
NoUrl == [origin |-> "", port |-> Undefined, lead |-> FALSE, path |-> ""]

\* a token of an HTML text: a tag `<n ...>`, an attribute n=q url q, the
\* fragment injectDevClient injects (k = "client"), or the bytes of another file
\* (t: the characters of a tag between < and >; n: an attribute's name, a file's
\* name; q: the quote character; port, mid: what the injected fragment embeds)
Tok(k, t, n, q, url, port, mid) ==
    [k |-> k, t |-> t, n |-> n, q |-> q, url |-> url, port |-> port, mid |-> mid]

Tag(t) == Tok("tag", t, "", "", NoUrl, Undefined, "")

Attr(n, q, url) == Tok("attr", <<>>, n, q, url, Undefined, "")

Raw(n) == Tok("raw", <<>>, n, "", NoUrl, Undefined, "")

\* "/logo.png"
RootRelative(path) == [origin |-> "", port |-> Undefined, lead |-> TRUE, path |-> path]

\* "https://cdn.example/x.js"
Absolute(origin, path) == [origin |-> origin, port |-> Undefined, lead |-> FALSE, path |-> path]

\* "style.css"
Relative(path) == [origin |-> "", port |-> Undefined, lead |-> FALSE, path |-> path]

\* <head></head><img src="/logo.png">
IndexHtml == <<Tag(<<"h", "e", "a", "d">>), Tag(<<"/", "h", "e", "a", "d">>), Attr("src", "\"", RootRelative("logo.png"))>>

\* <html><HEAD lang="en"><link href='/style.css'><script src="https://cdn.example/x.js">
\* <img src="logo.png">
ConfigHtml ==
    <<Tag(<<"h", "t", "m", "l">>), Tag(<<"H", "E", "A", "D", " ", "l", "a", "n", "g">>), Attr("href", "'", RootRelative("style.css")),
      Attr("src", "\"", Absolute("https://cdn.example", "x.js")),
      Attr("src", "\"", Relative("logo.png"))>>

\* <header class="bar"><head><script src='/main.js'>: a page whose text has a
\* <header> tag before its <head> tag
PanelHtml ==
    <<Tag(<<"h", "e", "a", "d", "e", "r", " ", "c", "l", "a", "s", "s">>),
      Tag(<<"h", "e", "a", "d">>), Attr("src", "'", RootRelative("main.js"))>>

\* the text of each source file when it exists
SourceText(rel) ==
    IF rel = <<"index.html">> THEN IndexHtml
    ELSE IF rel = <<"panel.html">> THEN PanelHtml
    ELSE ConfigHtml

\* -------------------------------------------------------- manifest resolver

\* the states of root/manifest.json
MAbsent == [state |-> "absent", hasId |-> FALSE, id |-> ""]
MUnreadable == [state |-> "unreadable", hasId |-> FALSE, id |-> ""]
MInvalid == [state |-> "invalid", hasId |-> FALSE, id |-> ""]
MNull == [state |-> "null", hasId |-> FALSE, id |-> ""]
MNoId == [state |-> "object", hasId |-> FALSE, id |-> ""]
MId(id) == [state |-> "object", hasId |-> TRUE, id |-> id]

ManifestIds == {"", "abc123", "other"}

Manifests == {MAbsent, MUnreadable, MInvalid, MNull, MNoId} \cup {MId(id) : id \in ManifestIds}

\* the try block of getManifestId: it throws, or returns a value, or falls
\* through (existsSync false)
ManifestTry(m) ==
    CASE m.state = "absent" -> [threw |-> FALSE, returned |-> FALSE, value |-> ""]
      [] m.state = "unreadable" -> [threw |-> TRUE, returned |-> FALSE, value |-> ""]
      [] m.state = "invalid" -> [threw |-> TRUE, returned |-> FALSE, value |-> ""]
      [] m.state = "null" -> [threw |-> TRUE, returned |-> FALSE, value |-> ""]
      [] OTHER -> [threw |-> FALSE, returned |-> TRUE,
                   value |-> IF m.hasId /\ m.id # "" THEN m.id ELSE ""]

\* the exception of the try block leaves the function
Uncaught(t) == [raised |-> t.threw, value |-> IF t.returned THEN t.value ELSE ""]

\* catch (error) { console.warn(...) }, then the `return ""` after it
Caught(t) == [raised |-> FALSE, value |-> IF ~t.threw /\ t.returned THEN t.value ELSE ""]

\* getManifestId without its catch clause
getManifestIdNoCatch(m) == Uncaught(ManifestTry(m))

\* getManifestId(config)
getManifestId(m) == Caught(ManifestTry(m))

\* -------------------------------------------------------------- transformer

\* the i flag of /(<head[^>]*>)/i on the letters of "head"
Lower(c) ==
    CASE c = "H" -> "h" [] c = "E" -> "e" [] c = "A" -> "a" [] c = "D" -> "d" [] OTHER -> c

\* /<head[^>]*>/i matches the tag: its text starts with "head" in any case
HeadMatch(tok) ==
    /\ tok.k = "tag"
    /\ Len(tok.t) >= 4
    /\ <<Lower(tok.t[1]), Lower(tok.t[2]), Lower(tok.t[3]), Lower(tok.t[4])>> = <<"h", "e", "a", "d">>

\* html.replace(/(<head[^>]*>)/i, `$1\n    ${clientScript}`): the first match only
InjectAfterHead(html, frag) ==
    LET hits == {i \in 1..Len(html) : HeadMatch(html[i])}
    IN  IF hits = {} THEN html
        ELSE LET i == CHOOSE j \in hits : \A h \in hits : j <= h
             IN  SubSeq(html, 1, i) \o <<frag>> \o SubSeq(html, i + 1, Len(html))

\* /(src|href)=["']\/([^"']+)["']/ matches the attribute
UrlMatch(tok) ==
    /\ tok.k = "attr"
    /\ tok.n \in {"src", "href"}
    /\ tok.url.lead
    /\ tok.url.path # ""

\* (_, attr, urlPath) => `${attr}="http://localhost:${port}/${urlPath}"`
RewriteUrl(tok, port) ==
    IF UrlMatch(tok)
    THEN [tok EXCEPT !.q = "\"",
                     !.url = [origin |-> "http://localhost", port |-> port, lead |-> FALSE,
                              path |-> tok.url.path]]
    ELSE tok

\* withClient.replace(/(src|href)=["']\/([^"']+)["']/g, ...)
RewriteUrls(html, port) == [i \in 1..Len(html) |-> RewriteUrl(html[i], port)]

\* clientScript of src/index.ts: the showViteError handler and the module script
ClientScript(port, mid) == Tok("client", <<>>, "onerror", "", NoUrl, port, mid)

\* clientScript of index.ts: the module script alone
LegacyClientScript(port) == Tok("client", <<>>, "", "", NoUrl, port, "")

\* injectDevClient of index.ts
injectDevClientLegacy(html, port) ==
    [raised |-> FALSE, manifestRead |-> FALSE,
     html |-> RewriteUrls(InjectAfterHead(html, LegacyClientScript(port)), port)]

\* injectDevClient of src/index.ts after `const manifestId = getManifestId(config)`.
\* `window?.location?.href` evaluates the identifier window: a ReferenceError
\* unless the process has such a global
InjectWith(html, port, id, hasWindow) ==
    IF id.raised \/ ~hasWindow
    THEN [raised |-> TRUE, manifestRead |-> TRUE, html |-> html]
    ELSE [raised |-> FALSE, manifestRead |-> TRUE,
          html |-> RewriteUrls(InjectAfterHead(html, ClientScript(port, id.value)), port)]

\* injectDevClient of src/index.ts
injectDevClient(html, port, m, hasWindow) == InjectWith(html, port, getManifestId(m), hasWindow)

\* -------------------------------------------------------------- file system

\* fs.mkdirSync(d, {recursive: true}); `fault` names the operation the file
\* system refuses (EACCES), "none" when it refuses nothing
Mkdir(fs, d, fault) ==
    IF d \in fs.dirs THEN [fs |-> fs, threw |-> FALSE]
    ELSE IF fault = "mkdir" THEN [fs |-> fs, threw |-> TRUE]
    ELSE [fs |-> [fs EXCEPT !.dirs = @ \cup Ancestors(d)], threw |-> FALSE]

\* fs.writeFileSync(p, data, "utf8")
WriteFile(fs, p, data, fault) ==
    IF Dirname(p) \notin fs.dirs THEN [fs |-> fs, threw |-> TRUE]
    ELSE [fs |-> [fs EXCEPT !.files = (p :> data) @@ @], threw |-> FALSE]

\* fs.copyFileSync(src, dst); with the fault "copy" the installed
\* eventForwarder.js cannot be read (EACCES), every other copy is possible
CopyFile(fs, src, dst, fault) ==
    IF (fault = "copy" /\ src = EventForwarderSrc) \/ src \notin DOMAIN fs.files
          \/ Dirname(dst) \notin fs.dirs
    THEN [fs |-> fs, threw |-> TRUE]
    ELSE [fs |-> [fs EXCEPT !.files = (dst :> fs.files[src]) @@ @], threw |-> FALSE]

\* one call of writeEntrypoint, as the handlers log it
Call(e, port, outcome, manifestRead) ==
    [entry |-> e, port |-> port, outcome |-> outcome, manifestRead |-> manifestRead]

\* html = injectDevClient(html, port), of the factory that built the plugin;
\* env holds variant, manifest, hasWindow, fault
Transform(html, port, env) ==
    IF env.variant = "legacy" THEN injectDevClientLegacy(html, port)
    ELSE injectDevClient(html, port, env.manifest, env.hasWindow)

\* writeEntrypoint after fs.writeFileSync(outHtmlPath, html, "utf8") = w
EmitFile(e, port, t, w) ==
    [fs |-> w.fs, raised |-> w.threw,
     call |-> Call(e, port, IF w.threw THEN "raised" ELSE "written", t.manifestRead)]

\* writeEntrypoint after fs.mkdirSync(path.dirname(outHtmlPath), ...) = d
EmitInto(e, outHtmlPath, port, fault, t, d) ==
    IF d.threw
    THEN [fs |-> d.fs, raised |-> TRUE, call |-> Call(e, port, "raised", t.manifestRead)]
    ELSE EmitFile(e, port, t, WriteFile(d.fs, outHtmlPath, t.html, fault))

\* writeEntrypoint after html = injectDevClient(html, port) = t
Emit(fs, e, outHtmlPath, port, fault, t) ==
    IF t.raised
    THEN [fs |-> fs, raised |-> TRUE, call |-> Call(e, port, "raised", t.manifestRead)]
    ELSE EmitInto(e, outHtmlPath, port, fault, t, Mkdir(fs, Dirname(outHtmlPath), fault))

\* writeEntrypoint with the output directory made before the source is looked for
writeEntrypointMkdirFirst(fs, e, entry, port, env) ==
    IF Resolve(Root, entry.input) \notin DOMAIN fs.files
    THEN [fs |-> Mkdir(fs, Dirname(Resolve(Root, entry.output)), env.fault).fs,
          raised |-> FALSE, call |-> Call(e, port, "skipped", FALSE)]
    ELSE Emit(fs, e, Resolve(Root, entry.output), port, env.fault,
              Transform(fs.files[Resolve(Root, entry.input)], port, env))

\* writeEntrypoint(entry, port) of index.ts and of src/index.ts (they differ in
\* injectDevClient only) for the entrypoint number e
writeEntrypoint(fs, e, entry, port, env) ==
    IF Resolve(Root, entry.input) \notin DOMAIN fs.files
    THEN [fs |-> fs, raised |-> FALSE, call |-> Call(e, port, "skipped", FALSE)]
    ELSE Emit(fs, e, Resolve(Root, entry.output), port, env.fault,
              Transform(fs.files[Resolve(Root, entry.input)], port, env))

RECURSIVE WriteEach(_, _, _, _, _, _)

\* forEach after the call r for entry e: an exception ends the loop
WriteNext(r, entries, e, port, env, calls) ==
    IF r.raised THEN [fs |-> r.fs, raised |-> TRUE, calls |-> Append(calls, r.call)]
    ELSE WriteEach(r.fs, entries, e + 1, port, env, Append(calls, r.call))

\* options.entrypoints.forEach((entry) => writeEntrypoint(entry, devPort)) from
\* entry e on
WriteEach(fs, entries, e, port, env, calls) ==
    IF e > Len(entries) THEN [fs |-> fs, raised |-> FALSE, calls |-> calls]
    ELSE WriteNext(writeEntrypoint(fs, e, entries[e], port, env), entries, e, port, env, calls)

\* const devPort = portFromServer || server.config.server.port || 5173
DevPort(captured, configured) == Or(captured, Or(configured, DefaultPort))

\* writeAll of configureServer
writeAll(fs, entries, captured, configured, env) ==
    WriteEach(fs, entries, 1, DevPort(captured, configured), env, <<>>)

\* ------------------------------------------------------------- provisioner

\* the outputDirs of copyDevFiles: the resolved directory of each output, once
RECURSIVE OutputDirs(_, _, _)
OutputDirs(entries, e, acc) ==
    IF e > Len(entries) THEN acc
    ELSE OutputDirs(entries, e + 1,
                    IF \E k \in 1..Len(acc) : acc[k] = Resolve(Root, Dirname(entries[e].output))
                    THEN acc
                    ELSE Append(acc, Resolve(Root, Dirname(entries[e].output))))

\* copy error.html into dir, a being the file system after eventForwarder.js
CopyErrorPage(dir, fault, a) ==
    IF a.threw THEN a
    ELSE IF ErrorPageSrc \in DOMAIN a.fs.files
    THEN CopyFile(a.fs, ErrorPageSrc, dir \o <<"error.html">>, fault)
    ELSE a

\* copy eventForwarder.js into dir, d being the file system after the mkdir
CopyForwarder(dir, fault, d) ==
    IF d.threw THEN d
    ELSE CopyErrorPage(dir, fault,
                       IF EventForwarderSrc \in DOMAIN d.fs.files
                       THEN CopyFile(d.fs, EventForwarderSrc, dir \o <<"eventForwarder.js">>,
                                     fault)
                       ELSE d)

\* the body of outputDirs.forEach(dir => ...) for one directory
CopyInto(fs, dir, fault) == CopyForwarder(dir, fault, Mkdir(fs, dir, fault))

RECURSIVE CopyEach(_, _, _, _)

\* forEach after the directory k: an exception ends the loop
CopyNext(r, outputDirs, k, fault) ==
    IF r.threw THEN r ELSE CopyEach(r.fs, outputDirs, k + 1, fault)

\* outputDirs.forEach from directory k on
CopyEach(fs, outputDirs, k, fault) ==
    IF k > Len(outputDirs) THEN [fs |-> fs, threw |-> FALSE]
    ELSE CopyNext(CopyInto(fs, outputDirs[k], fault), outputDirs, k, fault)

\* the exception of the try block leaves copyDevFiles
Thrown(r) == [fs |-> r.fs, raised |-> r.threw, failed |-> r.threw]

\* catch (error) { console.warn("[bks] Could not copy dev files:", error) }
Warned(r) == [fs |-> r.fs, raised |-> FALSE, failed |-> r.threw]

\* copyDevFiles without its try and catch
copyDevFilesNoCatch(fs, entries, fault) ==
    Thrown(CopyEach(fs, OutputDirs(entries, 1, <<>>), 1, fault))

\* copyDevFiles of configureServer
copyDevFiles(fs, entries, fault) ==
    Warned(CopyEach(fs, OutputDirs(entries, 1, <<>>), 1, fault))

\* -------------------------------------------------------------- middlewares

InfoUrl == "/__bks_vite_plugin__info"

\* req.url of the requests of the model: the endpoint, and the same path with a
\* query string, which is another url to `req.url === ...` as any other path is
Urls == {InfoUrl, "/__bks_vite_plugin__info?t=1"}

\* req.headers.origin: undefined, or scheme://host
NoOrigin == [present |-> FALSE, scheme |-> "", host |-> ""]

Origin(scheme, host) == [present |-> TRUE, scheme |-> scheme, host |-> host]

Origins ==
    {NoOrigin, Origin("https", "example.com"), Origin("plugin", "abc123"),
     Origin("plugin", "other")}

Requests == [url : Urls, origin : Origins]

\* what one middleware did with a request: the response it wrote (status 0: none)
\* and how many times it called next()
Outcome(status, body, cors, nextCalls) ==
    [status |-> status, body |-> body, cors |-> cors, nextCalls |-> nextCalls]

\* res.writeHead(200, {...}); res.end(JSON.stringify({manifestId: id})); an
\* exception of a middleware is answered 500 by the host
InfoAnswer(id) ==
    IF id.raised THEN Outcome(500, "", "", 0) ELSE Outcome(200, id.value, "*", 0)

\* the first middleware of configureServer: the manifest ID endpoint
infoMiddleware(req, m) ==
    IF req.url = InfoUrl THEN InfoAnswer(getManifestId(m)) ELSE Outcome(0, "", "", 1)

\* OriginCheck without the `manifestId &&` of its condition
OriginCheckNoEmpty(origin, id) ==
    IF id.raised THEN Outcome(500, "", "", 0)
    ELSE IF origin # Origin("plugin", id.value) THEN Outcome(403, "", "", 0)
    ELSE Outcome(0, "", "", 1)

\* if (manifestId && origin !== `plugin://${manifestId}`) { 403 } else next()
OriginCheck(origin, id) ==
    IF id.raised THEN Outcome(500, "", "", 0)
    ELSE IF id.value # "" /\ origin # Origin("plugin", id.value) THEN Outcome(403, "", "", 0)
    ELSE Outcome(0, "", "", 1)

\* the second middleware of configureServer: the origin check
originMiddleware(req, m) ==
    IF req.origin.present /\ req.origin.scheme = "plugin"
    THEN OriginCheck(req.origin, getManifestId(m))
    ELSE Outcome(0, "", "", 1)

\* Middleware with the identity resolved once, when the plugin was constructed
\* and manifest.json did not exist yet, and kept
MiddlewareCached(name, req, m) ==
    IF name = "info" THEN infoMiddleware(req, MAbsent) ELSE originMiddleware(req, MAbsent)

\* the middleware registered under the name
Middleware(name, req, m) ==
    IF name = "info" THEN infoMiddleware(req, m) ELSE originMiddleware(req, m)

NoOutcome == Outcome(0, "", "", 0)

\* the response to a request: who ended it ("vite": it passed every middleware
\* of the plugin), what was written, the middlewares consulted in order, and
\* what the origin check did when it was consulted
Response(req, by, o, visited, guard) ==
    [req |-> req, by |-> by, status |-> o.status, body |-> o.body, cors |-> o.cors,
     visited |-> visited, guard |-> guard]

NoResponse == Response([url |-> "", origin |-> NoOrigin], "", NoOutcome, <<>>, NoOutcome)

RECURSIVE RunChain(_, _, _, _, _, _)

\* after middleware i did o: its next() runs the middleware registered after it
ChainNext(o, mws, i, req, m, visited, guard) ==
    IF o.nextCalls = 1
    THEN RunChain(mws, i + 1, req, m, Append(visited, mws[i]),
                  IF mws[i] = "origin" THEN o ELSE guard)
    ELSE Response(req, mws[i], o, Append(visited, mws[i]),
                  IF mws[i] = "origin" THEN o ELSE guard)

\* the host runs the middlewares in the order of server.middlewares.use
RunChain(mws, i, req, m, visited, guard) ==
    IF i > Len(mws) THEN Response(req, "vite", NoOutcome, visited, guard)
    ELSE ChainNext(Middleware(mws[i], req, m), mws, i, req, m, visited, guard)

\* ------------------------------------------------------------ plugin object

\* PluginObject with the apply field of index.ts left out
PluginObjectNoApply(v) ==
    IF v = "legacy"
    THEN [name |-> "bks", apply |-> "", hooks |-> {"configResolved", "configureServer"}]
    ELSE [name |-> "bks-plugin", apply |-> "",
          hooks |-> {"config", "configResolved", "configureServer"}]

\* the object bks() returns: index.ts sets apply: "serve" and has no config
\* hook; src/index.ts has a config hook and no apply field
PluginObject(v) ==
    IF v = "legacy"
    THEN [name |-> "bks", apply |-> "serve", hooks |-> {"configResolved", "configureServer"}]
    ELSE [name |-> "bks-plugin", apply |-> "",
          hooks |-> {"config", "configResolved", "configureServer"}]

\* the host keeps a plugin whose apply field is absent or names its command
Applies(plugin, command) == plugin.apply = "" \/ plugin.apply = command

\* one "change" listener: the entry and the devPort it closes over
Watcher(e, entries, devPort) ==
    [entry |-> e, absPath |-> Resolve(Root, entries[e].input), devPort |-> devPort]

\* watchFiles(server): one add() and one "change" listener per entrypoint, each
\* listener closing over the devPort computed when watchFiles runs
watchFiles(entries, captured, configured) ==
    [watched |-> {Resolve(Root, entries[e].input) : e \in 1..Len(entries)},
     watchers |-> [e \in 1..Len(entries) |->
                      Watcher(e, entries, DevPort(captured, configured))]]

\* server.httpServer?.once("listening", ...)
OnceListening(http) == IF http THEN <<"once:listening">> ELSE <<>>

\* an exception left configureServer after stepsDone
NothingRegistered(fs, stepsDone, callsDone) ==
    [fs |-> fs, raised |-> TRUE, steps |-> stepsDone, middlewares |-> <<>>, armed |-> FALSE,
     watched |-> {}, watchers |-> <<>>, calls |-> callsDone]

\* Install with the origin check registered before the endpoint
InstallGuardFirst(c, w, http) ==
    IF c.raised THEN NothingRegistered(c.fs, <<"copyDevFiles">>, <<>>)
    ELSE [fs |-> c.fs, raised |-> FALSE,
          steps |-> <<"copyDevFiles", "use:origin", "use:info">> \o OnceListening(http)
                      \o <<"watchFiles">>,
          middlewares |-> <<"origin", "info">>, armed |-> http,
          watched |-> w.watched, watchers |-> w.watchers, calls |-> <<>>]

\* configureServer of src/index.ts after copyDevFiles() = c: the two
\* middlewares, the listening handler, watchFiles(server) = w
Install(c, w, http) ==
    IF c.raised THEN NothingRegistered(c.fs, <<"copyDevFiles">>, <<>>)
    ELSE [fs |-> c.fs, raised |-> FALSE,
          steps |-> <<"copyDevFiles", "use:info", "use:origin">> \o OnceListening(http)
                      \o <<"watchFiles">>,
          middlewares |-> <<"info", "origin">>, armed |-> http,
          watched |-> w.watched, watchers |-> w.watchers, calls |-> <<>>]

\* configureServer of src/index.ts
configureServerCurrent(fs, entries, captured, configured, http, env) ==
    Install(copyDevFiles(fs, entries, env.fault), watchFiles(entries, captured, configured),
            http)

\* configureServer of index.ts after writeAll() = a
LegacyInstall(a, w, http) ==
    IF a.raised THEN NothingRegistered(a.fs, <<"writeAll">>, a.calls)
    ELSE [fs |-> a.fs, raised |-> FALSE,
          steps |-> <<"writeAll">> \o OnceListening(http) \o <<"watchFiles">>,
          middlewares |-> <<>>, armed |-> http,
          watched |-> w.watched, watchers |-> w.watchers, calls |-> a.calls]

\* configureServer of index.ts
configureServerLegacy(fs, entries, captured, configured, http, env) ==
    LegacyInstall(writeAll(fs, entries, captured, configured, env),
                  watchFiles(entries, captured, configured), http)

\* configureServer(server) of the factory that built the plugin
configureServer(fs, entries, captured, configured, http, env) ==
    IF env.variant = "legacy"
    THEN configureServerLegacy(fs, entries, captured, configured, http, env)
    ELSE configureServerCurrent(fs, entries, captured, configured, http, env)

\* on("listening") in place of once("listening"): the handler stays
StaysArmed(armed) == armed

\* once("listening"): the handler is removed when the event fires
Once(armed) == FALSE

\* if (addr && typeof addr === "object" && addr.port) portFromServer = addr.port
Assigns(addr) == addr.kind = "object" /\ Truthy(addr.port)

\* portFromServer after the listening handler's assignment
Captured(addr, captured) == IF Assigns(addr) THEN addr.port ELSE captured

\* the listening handler after writeAll() = a
Listened(port, assign, a) ==
    [port |-> port, assign |-> assign, fs |-> a.fs, raised |-> a.raised, calls |-> a.calls]

\* the handler of once("listening"): capture the port, then writeAll()
onListening(fs, entries, captured, configured, addr, env) ==
    Listened(Captured(addr, captured), Assigns(addr),
             writeAll(fs, entries, Captured(addr, captured), configured, env))

RECURSIVE onChange(_, _, _, _, _, _, _)

\* after listener k called writeEntrypoint = r: an exception leaves emit()
ChangeNext(r, ws, k, entries, changed, env, done) ==
    IF r.raised THEN [fs |-> r.fs, raised |-> TRUE, calls |-> Append(done, r.call)]
    ELSE onChange(r.fs, ws, k + 1, entries, changed, env, Append(done, r.call))

\* the "change" listeners from listener k on, for the notified path; the
\* watcher notifies absolute paths, which path.resolve leaves as they are
onChange(fs, ws, k, entries, changed, env, done) ==
    IF k > Len(ws) THEN [fs |-> fs, raised |-> FALSE, calls |-> done]
    ELSE IF changed = ws[k].absPath
    THEN ChangeNext(writeEntrypoint(fs, ws[k].entry, entries[ws[k].entry], ws[k].devPort, env),
                    ws, k, entries, changed, env, done)
    ELSE onChange(fs, ws, k + 1, entries, changed, env, done)

\* -------------------------------------------------------------------- state

VARIABLES
    variant,        \* "legacy": bks of index.ts; "current": bks of src/index.ts
    mode,           \* the command of the host: "serve" or "build"
    hasWindow,      \* the process has a global named window
    entrypoints,    \* options.entrypoints
    cfgPort,        \* server.config.server.port
    hasHttpServer,  \* server.httpServer is not null (null in middleware mode)
    fault,          \* the operation the file system refuses
    pc,             \* where the host is in the plugin's life cycle
    configSet,      \* `config` has been assigned by configResolved
    contributed,    \* the config hook returned its partial configuration
    portFromServer, \* the captured port
    files,          \* the files that exist, with their text
    dirs,           \* the directories that exist
    manifest,       \* the state of root/manifest.json
    middlewares,    \* server.middlewares, in the order of use()
    listeningArmed, \* the once("listening") handler is registered and has not run
    assigned,       \* how many times portFromServer has been assigned
    watched,        \* the paths given to server.watcher.add
    watchers,       \* the "change" listeners, in the order of on()
    steps,          \* what configureServer did, in order
    last,           \* the handler that ran last
    calls,          \* the writeEntrypoint calls of the handler that ran last
    resp,           \* the response of the request handled last
    raised          \* the handler that ran last threw

vars ==
    <<variant, mode, hasWindow, entrypoints, cfgPort, hasHttpServer, fault, pc, configSet,
      contributed, portFromServer, files, dirs, manifest, middlewares, listeningArmed,
      assigned, watched, watchers, steps, last, calls, resp, raised>>

\* what the environment fixes for the life of the process
setup == <<variant, mode, hasWindow, entrypoints, cfgPort, hasHttpServer, fault>>

\* what configureServer registers
registered == <<middlewares, watched, watchers, steps>>

Env == [variant |-> variant, manifest |-> manifest, hasWindow |-> hasWindow, fault |-> fault]

Fs == [files |-> files, dirs |-> dirs]

Inputs == {entrypoints[e].input : e \in 1..Len(entrypoints)}

\* the text of a file of the project before the dev server starts
InitText(p) ==
    IF p = EventForwarderSrc THEN <<Raw("eventForwarder.js")>>
    ELSE IF p = ErrorPageSrc THEN <<Raw("error.html")>>
    ELSE SourceText(SubSeq(p, Len(Root) + 1, Len(p)))

\* the project before the dev server starts: the sources exist, nothing is
\* built, the runtime library is installed, the package ships its error page
InitFiles ==
    [p \in {Resolve(Root, i) : i \in Inputs} \cup {EventForwarderSrc, ErrorPageSrc} |->
        InitText(p)]

\* the directories of the project before the dev server starts
InitDirs ==
    Ancestors(Root) \cup Ancestors(Dirname(EventForwarderSrc))
        \cup Ancestors(Dirname(ErrorPageSrc))

Init ==
    /\ variant \in {"legacy", "current"}
    /\ mode \in {"serve", "build"}
    /\ hasWindow \in BOOLEAN
    /\ entrypoints \in EntrypointChoices
    /\ cfgPort \in ConfiguredPorts
    /\ hasHttpServer \in BOOLEAN
    /\ fault \in {"none", "mkdir", "copy"}
    /\ pc = "constructed"
    /\ configSet = FALSE
    /\ contributed = FALSE
    /\ portFromServer = Undefined
    /\ files = InitFiles
    /\ dirs = InitDirs
    /\ manifest = MAbsent
    /\ middlewares = <<>>
    /\ listeningArmed = FALSE
    /\ assigned = 0
    /\ watched = {}
    /\ watchers = <<>>
    /\ steps = <<>>
    /\ last = "bks"
    /\ calls = <<>>
    /\ resp = NoResponse
    /\ raised = FALSE

\* how many injected fragments a source text may hold: a source that is its own
\* output grows by one fragment with every rewrite
MaxFragments == 1

\* the injected fragments of a text
Fragments(html) == Cardinality({i \in 1..Len(html) : html[i].k = "client"})

\* the paths the watcher notifies: the sources, and a file that is no entrypoint
ChangedPaths == {Resolve(Root, i) : i \in Inputs} \cup {Resolve(Root, <<"src", "main.ts">>)}

\* ------------------------------------------------------------------ actions

\* the host drops the plugin, or keeps it, by its apply field
ApplyFilter ==
    /\ pc = "constructed"
    /\ pc' = IF Applies(PluginObject(variant), mode) THEN "applied" ELSE "skipped"
    /\ last' = "apply"
    /\ calls' = <<>> /\ resp' = NoResponse /\ raised' = FALSE
    /\ UNCHANGED <<setup, registered, configSet, contributed, portFromServer, files, dirs,
                   manifest, listeningArmed, assigned>>

\* the config hook, when the plugin has one
ConfigHook ==
    /\ pc = "applied"
    /\ pc' = "config"
    /\ contributed' = ("config" \in PluginObject(variant).hooks)
    /\ last' = "config"
    /\ calls' = <<>> /\ resp' = NoResponse /\ raised' = FALSE
    /\ UNCHANGED <<setup, registered, configSet, portFromServer, files, dirs, manifest,
                   listeningArmed, assigned>>

\* configResolved(_config) { config = _config }
ConfigResolved ==
    /\ pc = "config"
    /\ pc' = "resolved"
    /\ configSet' = TRUE
    /\ last' = "configResolved"
    /\ calls' = <<>> /\ resp' = NoResponse /\ raised' = FALSE
    /\ UNCHANGED <<setup, registered, contributed, portFromServer, files, dirs, manifest,
                   listeningArmed, assigned>>

\* a build has no dev server: configureServer is never called
BuildEnd ==
    /\ pc = "resolved" /\ mode = "build"
    /\ pc' = "built"
    /\ last' = "build"
    /\ calls' = <<>> /\ resp' = NoResponse /\ raised' = FALSE
    /\ UNCHANGED <<setup, registered, configSet, contributed, portFromServer, files, dirs,
                   manifest, listeningArmed, assigned>>

\* configureServer(server); an exception aborts the start of the server
ConfigureServer ==
    /\ pc = "resolved" /\ mode = "serve"
    /\ \E r \in {configureServer(Fs, entrypoints, portFromServer, cfgPort, hasHttpServer, Env)} :
         /\ pc' = IF r.raised THEN "crashed" ELSE "serving"
         /\ files' = r.fs.files /\ dirs' = r.fs.dirs
         /\ steps' = r.steps
         /\ middlewares' = r.middlewares
         /\ listeningArmed' = r.armed
         /\ watched' = r.watched /\ watchers' = r.watchers
         /\ calls' = r.calls /\ raised' = r.raised
    /\ last' = "configureServer"
    /\ resp' = NoResponse
    /\ UNCHANGED <<setup, configSet, contributed, portFromServer, manifest, assigned>>

\* the http server emits "listening": the once() handler runs and is removed;
\* an exception of the handler is uncaught and ends the process
Listening ==
    /\ pc = "serving" /\ listeningArmed
    /\ \E addr \in Addresses :
         \E r \in {onListening(Fs, entrypoints, portFromServer, cfgPort, addr, Env)} :
            /\ portFromServer' = r.port
            /\ assigned' = IF r.assign THEN assigned + 1 ELSE assigned
            /\ files' = r.fs.files /\ dirs' = r.fs.dirs
            /\ calls' = r.calls /\ raised' = r.raised
            /\ pc' = IF r.raised THEN "crashed" ELSE pc
    /\ listeningArmed' = Once(listeningArmed)
    /\ last' = "listening"
    /\ resp' = NoResponse
    /\ UNCHANGED <<setup, registered, configSet, contributed, manifest>>

\* the watcher emits "change" for a path: every listener runs, in order; an
\* exception of a listener is uncaught and ends the process
Change ==
    /\ pc = "serving"
    /\ \E changed \in ChangedPaths :
         /\ changed \in DOMAIN files => Fragments(files[changed]) < MaxFragments
         /\ \E r \in {onChange(Fs, watchers, 1, entrypoints, changed, Env, <<>>)} :
              /\ files' = r.fs.files /\ dirs' = r.fs.dirs
              /\ calls' = r.calls /\ raised' = r.raised
              /\ pc' = IF r.raised THEN "crashed" ELSE pc
    /\ last' = "change"
    /\ resp' = NoResponse
    /\ UNCHANGED <<setup, registered, configSet, contributed, portFromServer, manifest,
                   listeningArmed, assigned>>

\* an HTTP request goes through the middlewares
Request ==
    /\ pc = "serving"
    /\ \E req \in Requests : resp' = RunChain(middlewares, 1, req, manifest, <<>>, NoOutcome)
    /\ last' = "request"
    /\ calls' = <<>> /\ raised' = FALSE
    /\ UNCHANGED <<setup, registered, pc, configSet, contributed, portFromServer, files, dirs,
                   manifest, listeningArmed, assigned>>

\* somebody edits, creates, deletes or corrupts root/manifest.json, before the
\* host starts the plugin or while the server runs
EditManifest ==
    /\ pc \in {"constructed", "serving"}
    /\ \E m \in Manifests \ {manifest} : manifest' = m
    /\ last' = "edit"
    /\ calls' = <<>> /\ resp' = NoResponse /\ raised' = FALSE
    /\ UNCHANGED <<setup, registered, pc, configSet, contributed, portFromServer, files, dirs,
                   listeningArmed, assigned>>

\* somebody deletes a source file, or puts it back
EditInput ==
    /\ pc \in {"constructed", "serving"}
    /\ \E i \in Inputs :
         files' = IF Resolve(Root, i) \in DOMAIN files
                  THEN [q \in DOMAIN files \ {Resolve(Root, i)} |-> files[q]]
                  ELSE (Resolve(Root, i) :> SourceText(i)) @@ files
    /\ last' = "edit"
    /\ calls' = <<>> /\ resp' = NoResponse /\ raised' = FALSE
    /\ UNCHANGED <<setup, registered, pc, configSet, contributed, portFromServer, dirs,
                   manifest, listeningArmed, assigned>>

Next ==
    \/ ApplyFilter
    \/ ConfigHook
    \/ ConfigResolved
    \/ BuildEnd
    \/ ConfigureServer
    \/ Listening
    \/ Change
    \/ Request
    \/ EditManifest
    \/ EditInput

Spec == Init /\ [][Next]_vars

\* ------------------------------------------------------------------- claims

\* the manifest identity as the specification words it: the id field of a
\* manifest that is an object with a non-empty id, the empty string otherwise
Identity ==
    IF manifest.state = "object" /\ manifest.hasId /\ manifest.id # "" THEN manifest.id
    ELSE ""

\* the origin check was reached by the request handled last
GuardReached ==
    /\ last = "request"
    /\ \E k \in 1..Len(resp.visited) : resp.visited[k] = "origin"

\* the Origin header is present, starts with plugin://, the identity is not
\* empty and the header is not exactly plugin://<identity>
Foreign ==
    /\ resp.req.origin.present
    /\ resp.req.origin.scheme = "plugin"
    /\ Identity # ""
    /\ resp.req.origin.host # Identity

\* C1: a request that reaches the origin check is answered 403 with an empty
\* body, without next(), exactly when its Origin is a plugin:// origin other
\* than plugin://<identity> and the identity is not empty; in every other case
\* the check calls next() once and writes nothing
C1_OriginGuard ==
    GuardReached =>
        /\ (resp.guard.status = 403 /\ resp.guard.body = "" /\ resp.guard.nextCalls = 0)
              <=> Foreign
        /\ ~Foreign => (resp.guard.nextCalls = 1 /\ resp.guard.status = 0 /\ resp.by = "vite")

\* a plugin:// origin of another plugin was rejected
C1_Witness == GuardReached /\ Foreign /\ resp.status = 403 /\ resp.by = "origin"

\* C2: with the plugin of src/index.ts serving, a request for exactly
\* /__bks_vite_plugin__info is answered 200 by the endpoint with the identity of
\* that moment and Access-Control-Allow-Origin: *, and the origin check is not
\* consulted, whatever the Origin; any other url goes through the endpoint to
\* the origin check
C2_InfoEndpoint ==
    (variant = "current" /\ last = "request") =>
        IF resp.req.url = InfoUrl
        THEN /\ resp.by = "info" /\ resp.status = 200
             /\ resp.body = Identity /\ resp.cors = "*"
             /\ resp.visited = <<"info">>
        ELSE /\ Len(resp.visited) = 2
             /\ resp.visited[1] = "info" /\ resp.visited[2] = "origin"
             /\ resp.by \in {"origin", "vite"}

\* the endpoint answered an origin the origin check would have rejected
C2_Witness ==
    /\ last = "request" /\ resp.req.url = InfoUrl
    /\ resp.req.origin = Origin("plugin", "other") /\ Identity = "abc123"
    /\ resp.status = 200 /\ resp.body = "abc123"

\* the resolved paths of entrypoint e
InputOf(e) == Resolve(Root, entrypoints[e].input)

OutputOf(e) == Resolve(Root, entrypoints[e].output)

Entries == 1..Len(entrypoints)

\* the text holds the client-loader script for http://localhost:P/@vite/client
HasLoader(html, P) == \E i \in 1..Len(html) : html[i].k = "client" /\ html[i].port = P

\* every root-relative src or href of src appears in out as http://localhost:P/...
Rewritten(src, out, P) ==
    \A j \in 1..Len(src) :
        (src[j].k = "attr" /\ src[j].n \in {"src", "href"} /\ src[j].url.lead) =>
            \E k \in 1..Len(out) :
                /\ out[k].k = "attr" /\ out[k].n = src[j].n
                /\ out[k].url = [origin |-> "http://localhost", port |-> P, lead |-> FALSE,
                                 path |-> src[j].url.path]

\* C3: once the listening event has fired with bound port P (on a file system
\* that refuses nothing), the handler has not raised, and every entrypoint
\* whose input exists has its output, holding the client-loader script for P
\* and the root-relative urls rewritten to http://localhost:P/
C3_EndToEnd ==
    (last = "listening" /\ portFromServer # Undefined /\ fault = "none") =>
        /\ ~raised
        /\ \A e \in Entries :
              InputOf(e) \in DOMAIN files =>
                  /\ OutputOf(e) \in DOMAIN files
                  /\ HasLoader(files[OutputOf(e)], portFromServer)
                  /\ Rewritten(files[InputOf(e)], files[OutputOf(e)], portFromServer)

\* the port that is current: the captured one, else the configured one, else 5173
CurrentPort ==
    IF portFromServer # Undefined THEN portFromServer
    ELSE IF cfgPort # Undefined THEN cfgPort
    ELSE 5173

\* C4: every writeEntrypoint a change notification causes is called with the
\* port that is current when the notification is handled
C4_WatchUsesCurrentPort ==
    last = "change" => \A k \in 1..Len(calls) : calls[k].port = CurrentPort

\* the place of a step in what configureServer did (0: it did not happen)
StepAt(name) ==
    IF \E k \in 1..Len(steps) : steps[k] = name
    THEN CHOOSE k \in 1..Len(steps) : steps[k] = name
    ELSE 0

\* C5: when configureServer has returned, it has provisioned, then installed
\* the two middlewares, then written every entrypoint whose input exists once
\* with the fallback port
C5_StartupSequence ==
    (pc = "serving" /\ last = "configureServer") =>
        /\ 0 < StepAt("copyDevFiles")
        /\ StepAt("copyDevFiles") < StepAt("use:info")
        /\ StepAt("use:info") < StepAt("use:origin")
        /\ StepAt("use:origin") < StepAt("writeAll")
        /\ \A e \in Entries :
              InputOf(e) \in DOMAIN files =>
                  \E k \in 1..Len(calls) :
                      /\ calls[k].entry = e /\ calls[k].outcome = "written"
                      /\ calls[k].port = CurrentPort

\* C6: portFromServer starts undefined, changes only in the listening handler,
\* is assigned at most once, and never changes once it holds a value
C6_WriteOnce ==
    /\ portFromServer = Undefined
    /\ [][/\ portFromServer # Undefined => portFromServer' = portFromServer
          /\ portFromServer' # portFromServer => last' = "listening"
          /\ assigned' # assigned => last' = "listening"]_vars
    /\ [](assigned <= 1)

\* a change notification or a request was handled after a port was captured
\* that is not the configured one
C6_Witness ==
    /\ portFromServer # Undefined /\ portFromServer # cfgPort /\ assigned = 1
    /\ last \in {"change", "request"}

\* the handler that ran in this step does nothing but call writeEntrypoint
WritesOnly ==
    \/ last' \in {"change", "listening"}
    \/ last' = "configureServer" /\ variant = "legacy"

\* C7: a writeEntrypoint call for an entrypoint whose source does not exist
\* returns normally without reading the manifest, and leaves the output file
\* and the output directory as they were; a handler whose calls were all of
\* this kind does not raise and leaves the whole file system as it was
C7_MissingSourceNoOp ==
    [][WritesOnly =>
        /\ \A k \in 1..Len(calls') :
              InputOf(calls'[k].entry) \notin DOMAIN files =>
                  /\ calls'[k].outcome = "skipped"
                  /\ ~calls'[k].manifestRead
                  /\ OutputOf(calls'[k].entry) \in DOMAIN files'
                        <=> OutputOf(calls'[k].entry) \in DOMAIN files
                  /\ OutputOf(calls'[k].entry) \in DOMAIN files =>
                        files'[OutputOf(calls'[k].entry)] = files[OutputOf(calls'[k].entry)]
                  /\ Dirname(OutputOf(calls'[k].entry)) \in dirs'
                        <=> Dirname(OutputOf(calls'[k].entry)) \in dirs
        /\ (\A k \in 1..Len(calls') : InputOf(calls'[k].entry) \notin DOMAIN files) =>
              (files' = files /\ dirs' = dirs /\ ~raised')]_vars

\* a change notification for a deleted source left an output written earlier,
\* with a manifest on disk that was not read
C7_Witness ==
    /\ last = "change" /\ ~raised /\ manifest.state = "object"
    /\ \E k \in 1..Len(calls) :
          /\ calls[k].outcome = "skipped" /\ ~calls[k].manifestRead
          /\ InputOf(calls[k].entry) \notin DOMAIN files
          /\ OutputOf(calls[k].entry) \in DOMAIN files

\* C8: in every state of root/manifest.json getManifestId returns without
\* raising, the id of an object with a non-empty id and "" otherwise; the
\* endpoint, which calls it, answers 200 with that value
C8_ManifestNeverFails ==
    /\ getManifestId(manifest) = [raised |-> FALSE, value |-> Identity]
    /\ (last = "request" /\ resp.by = "info") =>
          (resp.status = 200 /\ resp.body = Identity)

\* the endpoint answered from a manifest whose JSON is null
C8_Witness ==
    /\ last = "request" /\ resp.by = "info" /\ manifest = MNull
    /\ resp.status = 200 /\ resp.body = ""

\* the plugin has written nothing: no directory was made, and every file that
\* exists is a file of the project with the text it had before the start
NothingWritten ==
    /\ dirs = InitDirs
    /\ DOMAIN files \subseteq DOMAIN InitFiles
    /\ \A p \in DOMAIN files : files[p] = InitFiles[p]

C10_ProvisioningNeverAborts ==
    (variant = "current" /\ last = "configureServer") =>
        /\ ~raised /\ pc = "serving"
        /\ middlewares = <<"info", "origin">>
        /\ listeningArmed = hasHttpServer
        /\ watched = {InputOf(e) : e \in Entries}
        /\ Len(watchers) = Len(entrypoints)
        /\ \A e \in Entries : watchers[e].entry = e /\ watchers[e].absPath = InputOf(e)

\* the copy failed (an output directory lacks error.html) and the server serves
C10_Witness ==
    /\ variant = "current" /\ last = "configureServer" /\ fault # "none"
    /\ \E e \in Entries : Dirname(OutputOf(e)) \o <<"error.html">> \notin DOMAIN files
    /\ pc = "serving" /\ middlewares = <<"info", "origin">>

\* a text without the injected fragments
StripClient(html) == SelectSeq(html, LAMBDA tok : tok.k # "client")

\* a src or href attribute whose value begins with "/"
RootRelativeAttr(tok) == tok.k = "attr" /\ tok.n \in {"src", "href"} /\ tok.url.lead

\* the attribute with the value http://localhost:P/<rest of path>, its name and
\* its quote character as they were
Localhost(tok, P) ==
    [tok EXCEPT !.url = [origin |-> "http://localhost", port |-> P, lead |-> FALSE,
                         path |-> tok.url.path]]

\* out is src with every root-relative src or href pointed at localhost:P and
\* nothing else changed
RewrittenAsClaimed(src, out, P) ==
    /\ Len(out) = Len(src)
    /\ \A j \in 1..Len(src) :
          out[j] = IF RootRelativeAttr(src[j]) THEN Localhost(src[j], P) ELSE src[j]

\* C11: whenever writeEntrypoint writes an output with port P, the output is,
\* apart from the injected fragment, the input with every src or href whose
\* value begins with "/" replaced by the same attribute, in the same quotes,
\* with the value http://localhost:P/<rest of path>, and with every other
\* token exactly as in the input
C11_UrlRewriting ==
    [][\A k \in 1..Len(calls') :
          calls'[k].outcome = "written" =>
              RewrittenAsClaimed(StripClient(files[InputOf(calls'[k].entry)]),
                                 StripClient(files'[OutputOf(calls'[k].entry)]),
                                 calls'[k].port)]_vars

\* the token is a <head> opening tag: the letters head in any case, then the
\* end of the tag or its attributes
IsHeadTag(tok) ==
    /\ HeadMatch(tok)
    /\ Len(tok.t) = 4 \/ tok.t[5] = " "

\* the token is the fragment the plugin injects for port P: the module script
\* for http://localhost:P/@vite/client, after the error-handler script when the
\* plugin is the one of src/index.ts
IsFragment(tok, P) ==
    /\ tok.k = "client" /\ tok.port = P
    /\ variant = "current" => tok.n = "onerror"

\* out holds the fragment for P once, right after its first <head> opening tag
FragmentAfterHead(out, P) ==
    /\ Fragments(out) = 1
    /\ \E i \in 1..(Len(out) - 1) :
          /\ IsHeadTag(out[i])
          /\ \A j \in 1..(i - 1) : ~IsHeadTag(out[j])
          /\ IsFragment(out[i + 1], P)

\* C12: whenever writeEntrypoint writes an output from an input that contains a
\* <head> opening tag, the output holds the injected fragment immediately after
\* that tag, and holds it exactly once
C12_HeadInjection ==
    [][\A k \in 1..Len(calls') :
          (/\ calls'[k].outcome = "written"
           /\ \E i \in 1..Len(files[InputOf(calls'[k].entry)]) :
                 IsHeadTag(files[InputOf(calls'[k].entry)][i])) =>
              FragmentAfterHead(files'[OutputOf(calls'[k].entry)], calls'[k].port)]_vars

\* the entrypoints whose resolved input is the path p, in registration order
Matches(p) == SelectSeq([e \in 1..Len(entrypoints) |-> e], LAMBDA e : InputOf(e) = p)

\* the entrypoints of a handler's writeEntrypoint calls, in call order
CallEntries(cs) == [k \in 1..Len(cs) |-> cs[k].entry]

\* C13: a change notification for a path p causes one writeEntrypoint call per
\* entrypoint whose resolved input is p, in registration order, and no other
\* call; a notification that matches no entrypoint writes nothing
C13_WatcherMatchCount ==
    [][last' = "change" =>
          \E p \in ChangedPaths :
              /\ CallEntries(calls') = Matches(p)
              /\ Matches(p) = <<>> => (files' = files /\ dirs' = dirs)]_vars

\* C14: neither the listening handler nor a change handler raises, whatever
\* the file system refuses and whatever the transform does, so the server is
\* not ended by it; and the writeAll pass of the listening handler calls
\* writeEntrypoint for every entrypoint, also after one of the calls failed
C14_WriteFailuresContained ==
    last \in {"listening", "change"} =>
        /\ ~raised
        /\ pc = "serving"
        /\ last = "listening" => CallEntries(calls) = [e \in 1..Len(entrypoints) |-> e]

\* the output directory d exists or can be made
Reachable(d) == d \in dirs \/ fault # "mkdir"

\* C15: when configureServer of src/index.ts has provisioned, every auxiliary
\* file whose own copy the file system does not refuse is in every output
\* directory that exists or can be made, also when an earlier step failed:
\* error.html everywhere, eventForwarder.js wherever it can be read
C15_ProvisioningContinues ==
    (variant = "current" /\ last = "configureServer") =>
        \A e \in Entries :
            Reachable(Dirname(OutputOf(e))) =>
                /\ Dirname(OutputOf(e)) \o <<"error.html">> \in DOMAIN files
                /\ fault # "copy" =>
                      Dirname(OutputOf(e)) \o <<"eventForwarder.js">> \in DOMAIN files

\* the text was written with a port other than P
Misaddressed(html, P) == \E i \in 1..Len(html) : html[i].k = "client" /\ html[i].port # P

\* C16: once the listening handler has captured the bound port, every output
\* that is written again is written with that port; and over the execution an
\* entrypoint has at most one mis-addressed write: a write with a port other
\* than the captured one never replaces an output that was itself written with
\* a port other than the captured one
C16_BoundedMisaddressing ==
    /\ [][portFromServer # Undefined =>
             \A k \in 1..Len(calls') :
                 calls'[k].outcome = "written" => calls'[k].port = portFromServer]_vars
    /\ [][\A k \in 1..Len(calls') :
             (/\ portFromServer # Undefined
              /\ calls'[k].outcome = "written"
              /\ OutputOf(calls'[k].entry) \in DOMAIN files
              /\ Misaddressed(files[OutputOf(calls'[k].entry)], portFromServer)) =>
                 calls'[k].port = portFromServer]_vars

\* the text holds the fragment injected for port P with the identity id
Embeds(html, P, id) ==
    \E i \in 1..Len(html) : html[i].k = "client" /\ html[i].port = P /\ html[i].mid = id

\* C17: every step uses the manifest.json of its own moment: the endpoint
\* answers 200 with the identity the file gives when the request is handled,
\* the origin check rejects exactly the plugin:// origins foreign to that
\* identity, and an output written by src/index.ts embeds that identity; so
\* the request or write that follows an edit of manifest.json sees the edit
C17_IdentityNeverCached ==
    [][/\ (last' = "request" /\ resp'.by = "info") =>
             (resp'.status = 200 /\ resp'.body = Identity)
       /\ GuardReached' => ((resp'.guard.status = 403) <=> Foreign')
       /\ variant = "current" =>
             \A k \in 1..Len(calls') :
                 calls'[k].outcome = "written" =>
                     Embeds(files'[OutputOf(calls'[k].entry)], calls'[k].port, Identity)]_vars

\* an output written while the identity was abc123 is on disk, manifest.json
\* has since been edited, and the endpoint has answered the new identity
C17_Witness ==
    /\ last = "request" /\ resp.by = "info" /\ resp.body = "other"
    /\ pc = "serving"
    /\ \E e \in Entries :
          /\ OutputOf(e) \in DOMAIN files
          /\ \E i \in 1..Len(files[OutputOf(e)]) :
                files[OutputOf(e)][i].k = "client" /\ files[OutputOf(e)][i].mid = "abc123"

\* the step is an operation of the plugin on the file system
PluginWrites == last' \in {"configureServer", "listening", "change"}

\* C18: no operation of the plugin changes, creates or removes a configured
\* input file; a transform never reads a text that holds an injected fragment;
\* and no output that is written is a path the watcher watches
C18_SourcesUntouched ==
    [][PluginWrites =>
          /\ \A e \in Entries :
                /\ InputOf(e) \in DOMAIN files' <=> InputOf(e) \in DOMAIN files
                /\ InputOf(e) \in DOMAIN files => files'[InputOf(e)] = files[InputOf(e)]
          /\ \A k \in 1..Len(calls') :
                calls'[k].outcome = "written" =>
                    /\ Fragments(files[InputOf(calls'[k].entry)]) = 0
                    /\ OutputOf(calls'[k].entry) \notin watched']_vars

====
